---- MODULE Spec2Model ----
(***************************************************************************)
(* Model of the live-conversation session of Career Compass                *)
(* (src/components/LiveConvo.tsx).                                         *)
(*                                                                         *)
(* The component runs on one event loop: every handler below runs to       *)
(* completion before the next one starts.  The record st holds the React   *)
(* state (aiStatus, error, transcription), the refs of the component and   *)
(* the platform objects the refs point to.  Platform objects are indexed   *)
(* by the start attempt that created them (1..MaxStarts): the microphone   *)
(* request, the stream's track, the two audio contexts, the network        *)
(* session and the capture node of that attempt.  A ref holds the index of *)
(* the object it points to, 0 for null.                                    *)
(*                                                                         *)
(* State setters are modelled as assignments: several setAIStatus calls    *)
(* inside one handler are batched by React and the last one wins.  The     *)
(* callbacks of a session keep running after the component is unmounted;   *)
(* the model keeps applying their state updates, which React drops and     *)
(* nothing displays.  AudioContext.close() is taken to change the context  *)
(* state at once, and nodes can be created on a closed context.            *)
(*                                                                         *)
(* App mounts LiveConvo when its tab is selected and unmounts it when      *)
(* another tab is selected.  Every mount is a new instance of the          *)
(* component with its own state and refs.  The fields of st named in       *)
(* CompFields are those of the instance that was mounted last; st.prev     *)
(* keeps the fields of the earlier instances, whose session callbacks      *)
(* still run, and st.owner[k] is the instance that made start attempt k.   *)
(* localStorage, the platform objects and the outbound messages are        *)
(* shared by all instances.                                                *)
(*                                                                         *)
(* st.feature is the history-backed feature of another tab (quiz, market   *)
(* research or quick tools) and st.bot the chatbot; each has its own       *)
(* specification, in which the live conversation stays idle.               *)
(***************************************************************************)
EXTENDS Integers, Sequences, FiniteSets, TLC

Max(a, b) == IF a >= b THEN a ELSE b

(* ---------------------------- bounds ---------------------------------- *)
MaxStarts == 3
MaxSessions == 1
MaxChunks == 2
MaxDur == 2
MaxTime == 2
MaxText == 2
MaxHist == 2
MaxPhrase == 21
MaxMounts == 2
MaxFrames == 2
SampleSteps == 3

Attempts == 1..Max(MaxStarts, MaxSessions)

VARIABLES st, ev, tornDown, sched, cut, parts, turn

vars == <<st, ev, tornDown, sched, cut, parts, turn>>

(* ---------------------------- text ------------------------------------ *)
\* A string is a sequence of one-character strings.
IsSpace(ch) == ch = " "

RECURSIVE TrimStart(_)
TrimStart(s) ==
  IF s # <<>> /\ IsSpace(Head(s)) THEN TrimStart(Tail(s)) ELSE s

RECURSIVE TrimEnd(_)
TrimEnd(s) ==
  IF s # <<>> /\ IsSpace(s[Len(s)]) THEN TrimEnd(SubSeq(s, 1, Len(s) - 1)) ELSE s

\* String.prototype.trim
Trim(s) == TrimEnd(TrimStart(s))

IEnjoy == <<"I", " ", "e", "n", "j", "o", "y">>
Coding == <<" ", "c", "o", "d", "i", "n", "g">>
IEnjoyCoding == IEnjoy \o Coding

(* ---------------------------- messages -------------------------------- *)
\* A LiveServerMessage: inT/outT are the texts of serverContent's
\* inputTranscription/outputTranscription (<<>> when absent), audio is the
\* duration of the inline audio chunk of modelTurn.parts[0] (0 when absent).
Msg(inT, outT, tc, audio, intr) ==
  [inT |-> inT, outT |-> outT, turnComplete |-> tc, audio |-> audio, interrupted |-> intr]

NoMsg == Msg(<<>>, <<>>, FALSE, 0, FALSE)

\* Messages without payload: turn-complete, interrupted.
ControlMsgs ==
  { Msg(<<>>, <<>>, tc, 0, i) : tc \in BOOLEAN, i \in BOOLEAN } \ {NoMsg}

\* Messages without transcription text: audio chunks, turn-complete, interrupted.
AudioMsgs ==
  { Msg(<<>>, <<>>, tc, a, i) : tc \in BOOLEAN, a \in 0..MaxDur, i \in BOOLEAN } \ {NoMsg}

Texts == { <<>>, <<" ">>, <<"a">> }

\* Messages without audio: partial transcriptions and turn-complete.
TextMsgs ==
  { Msg(i, o, tc, 0, FALSE) : i \in Texts, o \in Texts, tc \in BOOLEAN } \ {NoMsg}

\* The messages of the worked example of the transcript accumulator: the
\* partial input texts and the turn-complete signal.
TurnCompleteMsg == Msg(<<>>, <<>>, TRUE, 0, FALSE)

PhraseMsgs ==
  { Msg(i, <<>>, FALSE, 0, FALSE) : i \in {IEnjoy, Coding, IEnjoyCoding} } \cup {TurnCompleteMsg}

(* ---------------------------- history-backed features ---------------- *)
\* CareerQuiz, MarketResearch and QuickTools have the same shape: an input,
\* a request to the language API and a history list that is mirrored in
\* localStorage.  App renders one tab at a time, so one record holds the
\* feature that is displayed: its React state, the value stored under its
\* key (<<>> when the key is absent, <<json>> otherwise) and the request in
\* flight (<<>> when there is none) with the values its closure captured.
\* The template of the quick tools and the sources of the market research
\* travel with the result and are left out.
\* `made` counts the items created, which stands for Date.now(), and
\* `cleared` remembers the timestamps of the items the user has cleared.
Features == {"quiz", "research", "tools"}

\* The number of quiz questions kept by the model (the quiz asks seven).
MaxAnswers == 2
MaxRequests == 2

\* The quiz keeps one answer per question, the other features one text.
NoInput(f) == [i \in 1..(IF f = "quiz" THEN MaxAnswers ELSE 1) |-> <<>>]

InitFeature(f) ==
  [ name |-> f,
    input |-> NoInput(f),
    loading |-> FALSE,
    result |-> "",
    error |-> "",
    history |-> <<>>,
    showHistory |-> FALSE,
    storage |-> <<>>,
    request |-> <<>>,
    issued |-> 0,
    made |-> 0,
    cleared |-> {} ]

\* JSON.stringify and JSON.parse of a history list: an array of objects,
\* written here as a sequence of triples.
stringifyHistory(h) == [i \in DOMAIN h |-> <<h[i].input, h[i].result, h[i].timestamp>>]

parseHistory(j) == [i \in DOMAIN j |-> [input |-> j[i][1], result |-> j[i][2], timestamp |-> j[i][3]]]

\* The mount effect: the saved history is loaded when the key is present.
loadHistory(c) ==
  IF c.storage # <<>> THEN [c EXCEPT !.history = parseHistory(c.storage[1])] ELSE c

saveHistory(c, newHistory) ==
  [c EXCEPT !.history = newHistory, !.storage = <<stringifyHistory(newHistory)>>]

\* answers.some(a => a.trim() === ''), career.trim() === '', text.trim() === ''
isBlank(c) == \E i \in DOMAIN c.input : Trim(c.input[i]) = <<>>

handleSubmitUnchecked(c) ==
  [c EXCEPT !.error = "", !.loading = TRUE, !.result = "", !.showHistory = FALSE,
            !.request = <<[input |-> c.input, history |-> c.history]>>,
            !.issued = @ + 1]

\* handleSubmit up to the await: the request carries the input and the
\* history list of the render in which the form was submitted.
handleSubmit(c) ==
  IF isBlank(c)
  THEN [c EXCEPT !.error = "blank"]
  ELSE [c EXCEPT !.error = "", !.loading = TRUE, !.result = "", !.showHistory = FALSE,
                 !.request = <<[input |-> c.input, history |-> c.history]>>,
                 !.issued = @ + 1]

\* handleSubmit after the await, when the request has succeeded.
resolved(c, r) ==
  LET q == c.request[1]
      newHistoryItem == [input |-> q.input, result |-> r, timestamp |-> c.made + 1]
  IN [saveHistory([c EXCEPT !.result = r, !.made = @ + 1, !.request = <<>>],
                  <<newHistoryItem>> \o q.history)
        EXCEPT !.loading = FALSE]

\* handleSubmit after the await, when the request has failed.
rejected(c) == [c EXCEPT !.error = "failed", !.loading = FALSE, !.request = <<>>]

handleSelectHistory(c, item) ==
  [c EXCEPT !.input = item.input, !.result = item.result, !.showHistory = FALSE]

handleClearHistory(c) == [saveHistory(c, <<>>) EXCEPT !.showHistory = FALSE]

(* ---------------------------- chatbot --------------------------------- *)
\* ChatBot: its React state, the value stored under CHAT_STORAGE_KEY (<<>>
\* when the key is absent, <<json>> otherwise) and the message requests in
\* flight.  A request holds what its run of handleSubmit keeps in local
\* variables: the stage it has reached and modelResponse; `before` and
\* `message` remember the message list and the input at the submit.
MaxSubmits == 2
MaxReply == 2

Greeting == <<"Hello! How can I help you with your career questions today?">>
Apology == <<"Sorry, I encountered an error. Please try again.">>

Message(role, text) == [role |-> role, text |-> text]

\* The state after useState, before the mount effect.
InitBot ==
  [ chat |-> FALSE,
    messages |-> <<>>,
    input |-> <<>>,
    loading |-> FALSE,
    storage |-> <<>>,
    requests |-> <<>>,
    submits |-> 0 ]

stringifyChat(ms) == [i \in DOMAIN ms |-> <<ms[i].role, ms[i].text>>]

parseChat(j) == [i \in DOMAIN j |-> Message(j[i][1], j[i][2])]

\* The effect on [messages].
persistChat(b) ==
  IF Len(b.messages) > 1
  THEN [b EXCEPT !.storage = <<stringifyChat(b.messages)>>]
  ELSE b

\* The mount effect, followed by the effect on [messages].
mountChat(b) ==
  persistChat([b EXCEPT !.messages = IF b.storage # <<>>
                                      THEN parseChat(b.storage[1])
                                      ELSE <<Message("model", Greeting)>>,
                        !.chat = TRUE])

\* handleSubmit up to the first await.
handleSubmitChat(b) ==
  IF Trim(b.input) = <<>> \/ ~b.chat \/ b.loading
  THEN b
  ELSE persistChat(
         [b EXCEPT !.messages = Append(@, Message("user", b.input)),
                   !.input = <<>>,
                   !.loading = TRUE,
                   !.requests = Append(@, [stage |-> "sending", modelResponse |-> <<>>,
                                           before |-> b.messages, message |-> b.input]),
                   !.submits = @ + 1])

Without(q, i) == SubSeq(q, 1, i - 1) \o SubSeq(q, i + 1, Len(q))

\* sendMessageStream has resolved: the empty model message is appended.
streamOpened(b, i) ==
  persistChat([b EXCEPT !.messages = Append(@, Message("model", <<>>)),
                        !.requests[i].stage = "streaming"])

\* One chunk of the stream: the text of the last message is replaced.
streamChunk(b, i, text) ==
  LET modelResponse == b.requests[i].modelResponse \o text
  IN persistChat([b EXCEPT !.requests[i].modelResponse = modelResponse,
                           !.messages[Len(b.messages)].text = modelResponse])

\* The stream has ended: the finally block.
streamEnded(b, i) ==
  [b EXCEPT !.loading = FALSE, !.requests = Without(@, i)]

\* sendMessageStream or the stream has thrown: catch, then finally.
streamFailed(b, i) ==
  persistChat([b EXCEPT !.messages = Append(@, Message("model", Apology)),
                        !.loading = FALSE,
                        !.requests = Without(@, i)])

(* ---------------------------- initial state --------------------------- *)
InitSt ==
  [ mounted |-> TRUE,
    aiStatus |-> "idle",
    error |-> "null",
    transcription |-> <<>>,
    inputAudioContextRef |-> 0,
    outputAudioContextRef |-> 0,
    sessionPromiseRef |-> 0,
    mediaStreamRef |-> 0,
    scriptProcessorRef |-> 0,
    sourcesRef |-> {},
    currentInputTranscriptionRef |-> <<>>,
    currentOutputTranscriptionRef |-> <<>>,
    nextStartTimeRef |-> 0,
    aiSpeakingTimerRef |-> 0,
    \* platform objects, per start attempt
    gum |-> [k \in Attempts |-> "none"],
    track |-> [k \in Attempts |-> "none"],
    inCtx |-> [k \in Attempts |-> "none"],
    outCtx |-> [k \in Attempts |-> "none"],
    outClock |-> [k \in Attempts |-> 0],
    conn |-> [k \in Attempts |-> "none"],
    closeQueued |-> [k \in Attempts |-> FALSE],
    proc |-> [k \in Attempts |-> "none"],
    \* every buffer source ever started, and the pending timeouts as pairs
    \* <<timer id, remaining delay>>
    bufs |-> <<>>,
    timers |-> {},
    fault |-> FALSE,
    \* the context each capture node was created on
    procCtx |-> [k \in Attempts |-> 0],
    \* capture frames delivered so far; per session, the realtime-input
    \* messages sent and those waiting for the session promise to resolve
    captured |-> 0,
    sent |-> [k \in Attempts |-> <<>>],
    queued |-> [k \in Attempts |-> <<>>],
    \* localStorage[LIVE_CONVO_STORAGE_KEY], <<>> when the key is absent
    storage |-> <<>>,
    \* component instances
    owner |-> [k \in Attempts |-> 0],
    prev |-> <<>>,
    \* the feature shown by another tab
    feature |-> InitFeature("quiz"),
    bot |-> InitBot ]

(* ---------------------------- component instances --------------------- *)
\* The state and the refs of one instance of the component, with the
\* timeouts its closures have set.
CompFields ==
  { "mounted", "aiStatus", "error", "transcription",
    "inputAudioContextRef", "outputAudioContextRef", "sessionPromiseRef",
    "mediaStreamRef", "scriptProcessorRef", "sourcesRef",
    "currentInputTranscriptionRef", "currentOutputTranscriptionRef",
    "nextStartTimeRef", "aiSpeakingTimerRef", "timers" }

\* The instance that is (or was last) mounted.
Instance(s) == Len(s.prev) + 1

\* The state as the closures of instance i see it.
View(s, i) ==
  IF i >= Instance(s) THEN s
  ELSE [f \in DOMAIN s |-> IF f \in CompFields THEN s.prev[i][f] ELSE s[f]]

\* The state after a handler of instance i has turned View(s, i) into r.
Store(s, i, r) ==
  IF i >= Instance(s) THEN r
  ELSE [f \in DOMAIN s |->
          IF f \in CompFields THEN s[f]
          ELSE IF f = "prev"
               THEN [s.prev EXCEPT ![i] = [g \in CompFields |-> r[g]]]
               ELSE r[f]]

(* ---------------------------- localStorage ---------------------------- *)
\* JSON.stringify of the transcript: an array of {author, text} objects,
\* written here as a sequence of pairs.
JSONstringify(h) == [i \in DOMAIN h |-> <<h[i].author, h[i].text>>]

JSONparse(j) == [i \in DOMAIN j |-> [author |-> j[i][1], text |-> j[i][2]]]

persistAlways(s) ==
  IF s.mounted
  THEN [s EXCEPT !.storage = JSONstringify(s.transcription)]
  ELSE s

\* The effect on [transcription]: it runs after the render that follows a
\* setTranscription call of a mounted instance.
persist(s) ==
  IF s.mounted /\ Len(s.transcription) > 0
  THEN [s EXCEPT !.storage = JSONstringify(s.transcription)]
  ELSE s

\* The mount effect, followed by the effect on [transcription].
mount(s) ==
  persist(IF s.storage # <<>>
          THEN [s EXCEPT !.transcription = JSONparse(s.storage)]
          ELSE s)

(* ---------------------------- cleanup --------------------------------- *)
\* clearTimeout(id): cancels the timeout if it is still pending.
ClearTimer(s) ==
  IF s.aiSpeakingTimerRef # 0
  THEN [s EXCEPT !.timers = {t \in @ : t[1] # s.aiSpeakingTimerRef}]
  ELSE s

StopTracks(s) ==
  IF s.mediaStreamRef # 0
  THEN [s EXCEPT !.track[s.mediaStreamRef] = "ended", !.mediaStreamRef = 0]
  ELSE s

DisconnectProcessor(s) ==
  IF s.scriptProcessorRef # 0
  THEN [s EXCEPT !.proc[s.scriptProcessorRef] = "disconnected", !.scriptProcessorRef = 0]
  ELSE s

\* AudioContext.close(): the platform rejects it on a context that is
\* already closed (InvalidStateError), which is recorded in fault.
ContextClose(s, field, k) ==
  IF s[field][k] = "closed"
  THEN [s EXCEPT !.fault = TRUE]
  ELSE [s EXCEPT ![field][k] = "closed"]

CloseInputUnguarded(s) ==
  IF s.inputAudioContextRef # 0
  THEN ContextClose(s, "inCtx", s.inputAudioContextRef)
  ELSE s

CloseInput(s) ==
  IF s.inputAudioContextRef # 0 /\ s.inCtx[s.inputAudioContextRef] # "closed"
  THEN ContextClose(s, "inCtx", s.inputAudioContextRef)
  ELSE s

CloseOutput(s) ==
  IF s.outputAudioContextRef # 0 /\ s.outCtx[s.outputAudioContextRef] # "closed"
  THEN ContextClose(s, "outCtx", s.outputAudioContextRef)
  ELSE s

\* sessionPromiseRef.current?.then(session => session.close()): the callback
\* runs at once when the promise is resolved (connection open), and is queued
\* behind the resolution while the connection is still being established.
\* close() on a session that is closing or closed does nothing.
CloseSession(s) ==
  LET k == s.sessionPromiseRef IN
  IF k = 0 THEN s
  ELSE [s EXCEPT
          !.conn[k] = IF @ = "open" THEN "closing" ELSE @,
          !.closeQueued[k] = IF s.conn[k] = "connecting" THEN TRUE ELSE @,
          !.sessionPromiseRef = 0]

\* A buffer source that has finished (played to its end, or stopped) keeps
\* no schedule.
Finished(state) == [ctx |-> 0, start |-> 0, dur |-> 0, state |-> state]

\* source.stop() for every source of the active set, then clear the set.
StopSources(s) ==
  [s EXCEPT
     !.bufs = [i \in DOMAIN s.bufs |->
                 IF i \in s.sourcesRef THEN Finished("stopped") ELSE s.bufs[i]],
     !.sourcesRef = {}]

cleanupResettingCursor(s) ==
  [StopSources(CloseSession(CloseOutput(CloseInput(
     DisconnectProcessor(StopTracks(ClearTimer(s)))))))
   EXCEPT !.aiStatus = "idle", !.nextStartTimeRef = 0]

cleanup(s) ==
  [StopSources(CloseSession(CloseOutput(CloseInput(
     DisconnectProcessor(StopTracks(ClearTimer(s)))))))
   EXCEPT !.aiStatus = "idle"]

(* ---------------------------- startConversation ----------------------- *)
\* The attempt index of the next getUserMedia request.
NextAttempt(s) ==
  IF \A k \in Attempts : s.gum[k] # "none" THEN 0
  ELSE CHOOSE k \in Attempts :
         s.gum[k] = "none" /\ \A j \in Attempts : j < k => s.gum[j] # "none"

startConversationConnectingFirst(s, k) ==
  [s EXCEPT
     !.aiStatus = "connecting",
     !.error = "null",
     !.transcription = <<>>,
     !.nextStartTimeRef = 0,
     !.gum[k] = "pending",
     !.inCtx[k] = "running",
     !.inputAudioContextRef = k,
     !.outCtx[k] = "running",
     !.outputAudioContextRef = k,
     !.conn[k] = "connecting",
     !.sessionPromiseRef = k]

\* startConversation up to its first await: the state resets and the
\* getUserMedia request k.
startConversation(s, k) ==
  [s EXCEPT
     !.aiStatus = "connecting",
     !.error = "null",
     !.transcription = <<>>,
     !.nextStartTimeRef = 0,
     !.gum[k] = "pending"]

\* getUserMedia resolved: the rest of the try block, up to the return of
\* startLiveSession (a promise that resolves when the connection is open).
startGranted(s, k) ==
  [s EXCEPT
     !.gum[k] = "granted",
     !.track[k] = "live",
     !.mediaStreamRef = k,
     !.inCtx[k] = "running",
     !.inputAudioContextRef = k,
     !.outCtx[k] = "running",
     !.outClock[k] = 0,
     !.outputAudioContextRef = k,
     !.conn[k] = "connecting",
     !.sessionPromiseRef = k]

\* getUserMedia rejected: the catch block.
startDenied(s, k) ==
  cleanup([s EXCEPT
             !.gum[k] = "denied",
             !.error = "microphone",
             !.aiStatus = "error"])

(* ---------------------------- session callbacks ----------------------- *)
\* onopen of attempt k, then the resolution of its session promise: a close
\* queued by cleanup runs right after the handler.
\* The frames queued behind the promise were queued before a close was,
\* cleanup clearing sessionPromiseRef: they are sent first.
onopen(s, k) ==
  [s EXCEPT
     !.aiStatus = "listening",
     !.proc[k] = "connected",
     !.procCtx[k] = s.inputAudioContextRef,
     !.scriptProcessorRef = k,
     !.sent[k] = @ \o s.queued[k],
     !.queued[k] = <<>>,
     !.conn[k] = IF s.closeQueued[k] THEN "closing" ELSE "open"]

(* ---------------------------- capture --------------------------------- *)
\* A sample is x / SampleSteps for an integer x in -SampleSteps..SampleSteps.
Samples == (0 - SampleSteps)..SampleSteps

\* Truncation toward zero of a / b, b > 0.
Trunc(a, b) == IF a >= 0 THEN a \div b ELSE 0 - ((0 - a) \div b)

\* The store into an Int16Array element: the integer modulo 2^16, read as a
\* two's-complement number.
ToInt16(n) ==
  LET m == n % 65536 IN IF m >= 32768 THEN m - 65536 ELSE m

\* The scale of the conversion to 16-bit PCM.
FullScale == 32768

\* int16[i] = inputData[i] * 32768
pcm(x) == ToInt16(Trunc(x * FullScale, SampleSteps))

\* onaudioprocess for a frame holding the sample x: the blob is handed to
\* the session of the current session promise, at once when the promise is
\* resolved and the socket is open, after the resolution while the
\* connection is being established, and it is lost when there is no
\* promise or when the socket is closing or closed.  The fields n and x are
\* history: n numbers the frames in capture order, x is the sample.
onaudioprocess(s, x) ==
  LET k == s.sessionPromiseRef
      n == s.captured + 1
      pcmBlob == [n |-> n, x |-> x, data |-> pcm(x),
                  mimeType |-> "audio/pcm;rate=16000"]
  IN [s EXCEPT
        !.captured = n,
        !.sent = IF k # 0 /\ s.conn[k] = "open"
                 THEN [@ EXCEPT ![k] = Append(@, pcmBlob)] ELSE @,
        !.queued = IF k # 0 /\ s.conn[k] = "connecting"
                   THEN [@ EXCEPT ![k] = Append(@, pcmBlob)] ELSE @]

turnCompleteAiFirst(s) ==
  LET userInput == Trim(s.currentInputTranscriptionRef)
      aiOutput == Trim(s.currentOutputTranscriptionRef)
      h1 == IF aiOutput # <<>>
            THEN Append(s.transcription, [author |-> "AI", text |-> aiOutput])
            ELSE s.transcription
      h2 == IF userInput # <<>>
            THEN Append(h1, [author |-> "You", text |-> userInput])
            ELSE h1
  IN [s EXCEPT
        !.transcription = h2,
        !.currentInputTranscriptionRef = <<>>,
        !.currentOutputTranscriptionRef = <<>>,
        !.aiStatus = "thinking"]

turnCompleteUntrimmed(s) ==
  LET userInput == s.currentInputTranscriptionRef
      aiOutput == s.currentOutputTranscriptionRef
      h1 == IF userInput # <<>>
            THEN Append(s.transcription, [author |-> "You", text |-> userInput])
            ELSE s.transcription
      h2 == IF aiOutput # <<>>
            THEN Append(h1, [author |-> "AI", text |-> aiOutput])
            ELSE h1
  IN [s EXCEPT
        !.transcription = h2,
        !.currentInputTranscriptionRef = <<>>,
        !.currentOutputTranscriptionRef = <<>>,
        !.aiStatus = "thinking"]

\* The turn-complete branch of onmessage.
turnComplete(s) ==
  LET userInput == Trim(s.currentInputTranscriptionRef)
      aiOutput == Trim(s.currentOutputTranscriptionRef)
      h1 == IF userInput # <<>>
            THEN Append(s.transcription, [author |-> "You", text |-> userInput])
            ELSE s.transcription
      h2 == IF aiOutput # <<>>
            THEN Append(h1, [author |-> "AI", text |-> aiOutput])
            ELSE h1
  IN [s EXCEPT
        !.transcription = h2,
        !.currentInputTranscriptionRef = <<>>,
        !.currentOutputTranscriptionRef = <<>>,
        !.aiStatus = "thinking"]

scheduleChunkAtClock(s, d) ==
  LET c == s.outputAudioContextRef
      s1 == ClearTimer([s EXCEPT !.aiStatus = "speaking"])
      start == s1.outClock[c]
      id == Len(s1.bufs) + 1
  IN [s1 EXCEPT
        !.bufs = Append(@, [ctx |-> c, start |-> start, dur |-> d,
                            state |-> "playing"]),
        !.nextStartTimeRef = start + d,
        !.sourcesRef = @ \cup {id},
        !.timers = @ \cup {<<id, d>>},
        !.aiSpeakingTimerRef = id]

\* The audio branch of onmessage: schedule a chunk of duration d on the
\* current output context and restart the speaking timeout.
scheduleChunk(s, d) ==
  LET c == s.outputAudioContextRef
      s1 == ClearTimer([s EXCEPT !.aiStatus = "speaking"])
      start == Max(s1.nextStartTimeRef, s1.outClock[c])
      id == Len(s1.bufs) + 1
  IN [s1 EXCEPT
        !.bufs = Append(@, [ctx |-> c, start |-> start, dur |-> d,
                            state |-> "playing"]),
        !.nextStartTimeRef = start + d,
        !.sourcesRef = @ \cup {id},
        !.timers = @ \cup {<<id, d>>},
        !.aiSpeakingTimerRef = id]

interruptedWithoutStop(s) ==
  [ClearTimer(s) EXCEPT
     !.sourcesRef = {},
     !.nextStartTimeRef = 0,
     !.aiStatus = "listening"]

\* The interrupted branch of onmessage.
interrupted(s) ==
  [StopSources(ClearTimer(s)) EXCEPT
     !.nextStartTimeRef = 0,
     !.aiStatus = "listening"]

accumulateReplacing(s, m) ==
  [s EXCEPT
     !.currentInputTranscriptionRef = IF m.inT # <<>> THEN m.inT ELSE @,
     !.currentOutputTranscriptionRef = IF m.outT # <<>> THEN m.outT ELSE @]

\* The two transcription branches of onmessage.
accumulate(s, m) ==
  [s EXCEPT
     !.currentInputTranscriptionRef = @ \o m.inT,
     !.currentOutputTranscriptionRef = @ \o m.outT]

\* onmessage up to the end of its audio branch.
received(s, m) ==
  LET s1 == accumulate(s, m)
      s2 == IF m.turnComplete THEN turnComplete(s1) ELSE s1
  IN IF m.audio > 0 /\ s2.outputAudioContextRef # 0
     THEN scheduleChunk(s2, m.audio) ELSE s2

onmessage(s, m) ==
  IF m.interrupted THEN interrupted(received(s, m)) ELSE received(s, m)

onerrorRetrying(s) ==
  LET c == cleanup([s EXCEPT !.error = "connection", !.aiStatus = "error"])
  IN IF NextAttempt(c) # 0 THEN startConversation(c, NextAttempt(c)) ELSE c

onerror(s) ==
  cleanup([s EXCEPT !.error = "connection", !.aiStatus = "error"])

onclose(s) == cleanup(s)

speakingTimeoutToIdle(s, i) ==
  [s EXCEPT !.aiStatus = "idle", !.timers = {t \in @ : t[1] # i}]

\* The timeout set by the audio branch.
speakingTimeout(s, i) ==
  [s EXCEPT !.aiStatus = "listening", !.timers = {t \in @ : t[1] # i}]

sourceEndedKeeping(s, i) ==
  [s EXCEPT !.bufs[i] = Finished("ended")]

\* The 'ended' listener of buffer source i.
sourceEnded(s, i) ==
  [s EXCEPT !.bufs[i] = Finished("ended"), !.sourcesRef = @ \ {i}]

(* ---------------------------- user handlers --------------------------- *)
isSessionActive(s) == s.aiStatus \notin {"idle", "error", "connecting"}

handleInterruptSpeechClosing(s) ==
  [CloseSession(StopSources(ClearTimer(s))) EXCEPT
     !.aiSpeakingTimerRef = 0,
     !.nextStartTimeRef = 0,
     !.aiStatus = "listening"]

handleInterruptSpeech(s) ==
  [StopSources(ClearTimer(s)) EXCEPT
     !.aiSpeakingTimerRef = 0,
     !.nextStartTimeRef = 0,
     !.aiStatus = "listening"]

(* ---------------------------- actions --------------------------------- *)
\* History variables, read by the properties only:
\*   ev        the handler that ran last and the message it was given;
\*   tornDown  the caller of the last cleanup since start was last pressed,
\*             "none" when there was no cleanup since;
\*   sched     the schedule <<start, duration>> of the chunk scheduled last,
\*             <<>> before the first one;
\*   cut       the next-start cursor was reset by a start or an interruption
\*             after that chunk was scheduled: the next chunk begins a new
\*             sequence of chunks;
\*   parts     the partial input texts received since the pending-input
\*             buffer was last cleared.
Ev(op, m) == [op |-> op, m |-> m]

\*   turn      the statuses the mounted instance has gone through, in order,
\*             as long as the events so far are those of one full turn with
\*             an audio reply (start pressed, microphone granted, connection
\*             open, one audio chunk, its timeout) and the passing of time;
\*             <<>> once any other event has happened.
Trail(t, s) ==
  IF t = <<>> THEN <<>>
  ELSE IF s.aiStatus = t[Len(t)] THEN t
  ELSE Append(t, s.aiStatus)

\* A message that carries an audio chunk and nothing else.
IsChunk(m) ==
  m.audio > 0 /\ ~m.turnComplete /\ ~m.interrupted /\ m.inT = <<>> /\ m.outT = <<>>

Init ==
  /\ st = InitSt
  /\ ev = Ev("init", NoMsg)
  /\ tornDown = "none"
  /\ sched = <<>>
  /\ cut = FALSE
  /\ parts = <<>>
  /\ turn = <<"idle">>

\* handleControlButtonClick, third branch.  The button is disabled while
\* connecting and is gone once the component is unmounted.
ClickStart(limit) ==
  /\ st.mounted
  /\ st.aiStatus \in {"idle", "error"}
  /\ NextAttempt(st) \in 1..limit
  /\ st' = [persist(startConversation(st, NextAttempt(st)))
              EXCEPT !.owner[NextAttempt(st)] = Instance(st)]
  /\ ev' = Ev("ClickStart", NoMsg)
  /\ tornDown' = "none"
  /\ cut' = TRUE
  /\ turn' = Trail(turn, st')
  /\ UNCHANGED <<sched, parts>>

\* handleControlButtonClick, second branch.
ClickStop ==
  /\ st.mounted
  /\ st.aiStatus # "speaking"
  /\ st.aiStatus # "connecting"
  /\ isSessionActive(st)
  /\ st' = cleanup(st)
  /\ ev' = Ev("ClickStop", NoMsg)
  /\ tornDown' = "ClickStop"
  /\ turn' = <<>>
  /\ UNCHANGED <<sched, cut, parts>>

\* handleControlButtonClick, first branch.
ClickInterrupt ==
  /\ st.mounted
  /\ st.aiStatus = "speaking"
  /\ st' = handleInterruptSpeech(st)
  /\ ev' = Ev("ClickInterrupt", NoMsg)
  /\ cut' = TRUE
  /\ turn' = <<>>
  /\ UNCHANGED <<tornDown, sched, parts>>

GumGrant(k) ==
  /\ st.gum[k] = "pending"
  /\ st' = Store(st, st.owner[k], startGranted(View(st, st.owner[k]), k))
  /\ ev' = Ev("GumGrant", NoMsg)
  /\ turn' = Trail(turn, st')
  /\ UNCHANGED <<tornDown, sched, cut, parts>>

GumDeny(k) ==
  /\ st.gum[k] = "pending"
  /\ st' = Store(st, st.owner[k], startDenied(View(st, st.owner[k]), k))
  /\ ev' = Ev("GumDeny", NoMsg)
  /\ tornDown' = "GumDeny"
  /\ turn' = <<>>
  /\ UNCHANGED <<sched, cut, parts>>

ConnOpen(k) ==
  /\ st.conn[k] = "connecting"
  /\ st' = Store(st, st.owner[k], onopen(View(st, st.owner[k]), k))
  /\ ev' = Ev("ConnOpen", NoMsg)
  /\ turn' = Trail(turn, st')
  /\ UNCHANGED <<tornDown, sched, cut, parts>>

\* A server message of session k reaches onmessage.  The SDK hands messages
\* to the callback asynchronously, so a message received before close() was
\* called can be delivered after it, until the close event.
ConnMessage(k, m, maxLen) ==
  LET v == View(st, st.owner[k]) IN
  /\ st.conn[k] \in {"open", "closing"}
  /\ m.audio > 0 => Len(st.bufs) < MaxChunks
  /\ Len(v.currentInputTranscriptionRef \o m.inT) <= maxLen
  /\ Len(v.currentOutputTranscriptionRef \o m.outT) <= maxLen
  /\ Len(onmessage(v, m).transcription) <= MaxHist
  /\ st' = Store(st, st.owner[k], persist(onmessage(v, m)))
  /\ ev' = Ev("ConnMessage", m)
  /\ LET r == received(v, m)
         b == r.bufs[Len(r.bufs)]
         new == Len(r.bufs) > Len(st.bufs)
     IN /\ sched' = IF new THEN <<b.start, b.dur>> ELSE sched
        /\ cut' = IF m.interrupted THEN TRUE ELSE IF new THEN FALSE ELSE cut
  /\ parts' = IF m.turnComplete THEN <<>>
              ELSE IF m.inT # <<>> THEN Append(parts, m.inT) ELSE parts
  /\ turn' = IF IsChunk(m) /\ st.bufs = <<>> THEN Trail(turn, st') ELSE <<>>
  /\ UNCHANGED tornDown

\* A transport error of session k: the socket fails, then onerror runs.
ConnError(k) ==
  /\ st.conn[k] \in {"connecting", "open"}
  /\ LET s1 == [st EXCEPT !.conn[k] = "failed"]
     IN st' = Store(s1, st.owner[k], onerror(View(s1, st.owner[k])))
  /\ ev' = Ev("ConnError", NoMsg)
  /\ tornDown' = "ConnError"
  /\ turn' = <<>>
  /\ UNCHANGED <<sched, cut, parts>>

\* The close event of session k: after close(), after a failure, or when
\* the server ends the session.
ConnClose(k) ==
  /\ st.conn[k] \in {"open", "closing", "failed"}
  /\ LET s1 == [st EXCEPT !.conn[k] = "closed"]
     IN st' = Store(s1, st.owner[k], onclose(View(s1, st.owner[k])))
  /\ ev' = Ev("ConnClose", NoMsg)
  /\ tornDown' = "ConnClose"
  /\ turn' = <<>>
  /\ UNCHANGED <<sched, cut, parts>>

\* The capture node of attempt k delivers a frame holding the sample x: the
\* node is connected and its context is running.
Frame(k, x) ==
  /\ st.proc[k] = "connected"
  /\ st.procCtx[k] # 0
  /\ st.inCtx[st.procCtx[k]] = "running"
  /\ st.captured < MaxFrames
  /\ st' = Store(st, st.owner[k], onaudioprocess(View(st, st.owner[k]), x))
  /\ ev' = Ev("Frame", NoMsg)
  /\ turn' = <<>>
  /\ UNCHANGED <<tornDown, sched, cut, parts>>

\* The timeout of chunk i, set by some instance, elapses.
TimerFire(i) ==
  \E j \in 1..MaxMounts :
    /\ j <= Instance(st)
    /\ <<i, 0>> \in View(st, j).timers
    /\ st' = Store(st, j, speakingTimeout(View(st, j), i))
    /\ ev' = Ev("TimerFire", NoMsg)
    /\ turn' = Trail(turn, st')
    /\ UNCHANGED <<tornDown, sched, cut, parts>>

\* Buffer source i has played to its end on a running context.
SourceEnded(i) ==
  /\ i \in DOMAIN st.bufs
  /\ st.bufs[i].state = "playing"
  /\ st.outCtx[st.bufs[i].ctx] = "running"
  /\ st.outClock[st.bufs[i].ctx] >= st.bufs[i].start + st.bufs[i].dur
  /\ LET j == st.owner[st.bufs[i].ctx]
     IN st' = Store(st, j, sourceEnded(View(st, j), i))
  /\ ev' = Ev("SourceEnded", NoMsg)
  /\ turn' = Trail(turn, st')
  /\ UNCHANGED <<tornDown, sched, cut, parts>>

\* The delay of every pending timeout shrinks by one unit.
Elapse(timers) == { <<t[1], IF t[2] > 0 THEN t[2] - 1 ELSE 0>> : t \in timers }

\* One unit of time passes: the clock of every running output context
\* advances and the timeouts of every instance come closer.
Tick ==
  /\ \A k \in Attempts : st.outCtx[k] = "running" => st.outClock[k] < MaxTime
  /\ st' = [st EXCEPT
              !.outClock = [k \in Attempts |->
                 IF st.outCtx[k] = "running" THEN @[k] + 1 ELSE @[k]],
              !.timers = Elapse(@),
              !.prev = [i \in DOMAIN st.prev |->
                          [st.prev[i] EXCEPT !.timers = Elapse(@)]]]
  /\ ev' = Ev("Tick", NoMsg)
  /\ turn' = Trail(turn, st')
  /\ UNCHANGED <<tornDown, sched, cut, parts>>

\* The unmount effect: App switches to another tab.
Unmount ==
  /\ st.mounted
  /\ st' = cleanup([st EXCEPT !.mounted = FALSE])
  /\ ev' = Ev("Unmount", NoMsg)
  /\ tornDown' = "Unmount"
  /\ turn' = <<>>
  /\ UNCHANGED <<sched, cut, parts>>

\* A new instance: its state and refs are those of InitSt, the instance
\* before it is kept in prev.
Fresh(s) ==
  [f \in DOMAIN s |->
     IF f \in CompFields THEN InitSt[f]
     ELSE IF f = "prev" THEN Append(s.prev, [g \in CompFields |-> s[g]])
     ELSE s[f]]

\* App switches back to the live-conversation tab: a new instance is
\* mounted and its mount effect runs.
Remount ==
  /\ ~st.mounted
  /\ Instance(st) < MaxMounts
  /\ st' = mount(Fresh(st))
  /\ ev' = Ev("Remount", NoMsg)
  /\ turn' = <<>>
  /\ UNCHANGED <<tornDown, sched, cut, parts>>

Lifecycle(limit) ==
  \/ ClickStart(limit)
  \/ ClickStop
  \/ \E k \in Attempts : GumGrant(k)
  \/ \E k \in Attempts : GumDeny(k)
  \/ \E k \in Attempts : ConnOpen(k)
  \/ \E k \in Attempts : ConnError(k)
  \/ \E k \in Attempts : ConnClose(k)
  \/ Unmount

\* The session with any number of restarts up to MaxStarts, tab switches
\* and messages without payload.
Next ==
  \/ Lifecycle(MaxStarts)
  \/ Remount
  \/ \E k \in Attempts, m \in ControlMsgs : ConnMessage(k, m, MaxText)

Spec == Init /\ [][Next]_vars

\* The session with audio chunks and time.
NextAudio ==
  \/ Lifecycle(MaxSessions)
  \/ ClickInterrupt
  \/ \E k \in Attempts, m \in AudioMsgs : ConnMessage(k, m, MaxText)
  \/ \E i \in 1..MaxChunks : TimerFire(i)
  \/ \E i \in 1..MaxChunks : SourceEnded(i)
  \/ Tick

SpecAudio == Init /\ [][NextAudio]_vars

\* The session with transcription messages.
NextText ==
  \/ Lifecycle(MaxSessions)
  \/ \E k \in Attempts, m \in TextMsgs : ConnMessage(k, m, MaxText)

SpecText == Init /\ [][NextText]_vars

\* The session with the partial texts of the worked example.
NextPhrase ==
  \/ Lifecycle(MaxSessions)
  \/ \E k \in Attempts, m \in PhraseMsgs : ConnMessage(k, m, MaxPhrase)

SpecPhrase == Init /\ [][NextPhrase]_vars

\* The session with any number of restarts up to MaxStarts, capture frames
\* of silence and messages without payload.
NextCapture ==
  \/ Lifecycle(MaxStarts)
  \/ \E k \in Attempts : Frame(k, 0)
  \/ \E k \in Attempts, m \in ControlMsgs : ConnMessage(k, m, MaxText)

SpecCapture == Init /\ [][NextCapture]_vars

\* The session with capture frames of every sample value.
NextPcm ==
  \/ Lifecycle(MaxSessions)
  \/ \E k \in Attempts, x \in Samples : Frame(k, x)

SpecPcm == Init /\ [][NextPcm]_vars

\* The transcripts an earlier visit of the page may have left in
\* localStorage.
SavedTranscripts ==
  { <<>>,
    << [author |-> "You", text |-> <<"a">>], [author |-> "AI", text |-> <<"a">>] >> }

\* The first mount on a page whose localStorage may hold a transcript.
InitStored ==
  /\ \E h \in SavedTranscripts :
       st = mount([InitSt EXCEPT !.storage = JSONstringify(h)])
  /\ ev = Ev("init", NoMsg)
  /\ tornDown = "none"
  /\ sched = <<>>
  /\ cut = FALSE
  /\ parts = <<>>
  /\ turn = <<"idle">>

\* The session with transcription messages, tab switches and a stored
\* transcript.
NextStore ==
  \/ Lifecycle(MaxSessions)
  \/ Remount
  \/ \E k \in Attempts, m \in TextMsgs : ConnMessage(k, m, MaxText)

SpecStore == InitStored /\ [][NextStore]_vars

\* A partial input transcription and the turn-complete signal.
PartialMsgs == { Msg(<<"a">>, <<>>, FALSE, 0, FALSE), TurnCompleteMsg }

\* The session with restarts up to MaxStarts and partial transcriptions.
NextCarry ==
  \/ Lifecycle(MaxStarts)
  \/ \E k \in Attempts, m \in PartialMsgs : ConnMessage(k, m, MaxText)

SpecCarry == Init /\ [][NextCarry]_vars

(* ---------------------------- fairness -------------------------------- *)
\* The platform settles every getUserMedia request, every connection attempt
\* ends in an open or an error event, and a socket that was closed or has
\* failed delivers its close event.  Clicks, tab switches, server messages
\* and the end of an open session are not forced to happen.
Settle(k) == GumGrant(k) \/ GumDeny(k)

Establish(k) == st.conn[k] = "connecting" /\ (ConnOpen(k) \/ ConnError(k))

Finish(k) == st.conn[k] \in {"closing", "failed"} /\ ConnClose(k)

FairSpec ==
  /\ Spec
  /\ \A k \in Attempts : WF_vars(Settle(k))
  /\ \A k \in Attempts : WF_vars(Establish(k))
  /\ \A k \in Attempts : WF_vars(Finish(k))

(* ---------------------------- history-backed features: steps ---------- *)
Ghosts == <<tornDown, sched, cut, parts, turn>>

\* One step of the displayed feature: c is its record after the step.
FeatureStep(op, c) ==
  /\ st' = [st EXCEPT !.feature = c]
  /\ ev' = Ev(op, NoMsg)
  /\ UNCHANGED Ghosts

\* The user edits a field of the form.  The fields are disabled while a
\* request is in flight, and the quiz shows its form only without a result.
FeatureType(i, x) ==
  LET c == st.feature IN
  /\ ~c.loading
  /\ c.name = "quiz" => c.result = ""
  /\ i \in DOMAIN c.input
  /\ c.input[i] # x
  /\ FeatureStep("FeatureType", [c EXCEPT !.input[i] = x])

\* The form is submitted; the submit button is disabled while loading.
FeatureSubmit ==
  LET c == st.feature IN
  /\ ~c.loading
  /\ c.name = "quiz" => c.result = ""
  /\ c.issued < MaxRequests
  /\ FeatureStep("FeatureSubmit", handleSubmit(c))

FeatureResolve(r) ==
  /\ st.feature.request # <<>>
  /\ FeatureStep("FeatureResolve", resolved(st.feature, r))

FeatureReject ==
  /\ st.feature.request # <<>>
  /\ FeatureStep("FeatureReject", rejected(st.feature))

\* The history button, which is never disabled.
FeatureToggle ==
  LET c == st.feature IN
  /\ c.name \in Features
  /\ FeatureStep("FeatureToggle", [c EXCEPT !.showHistory = ~@])

\* An entry of the history panel is clicked.
FeatureSelect(i) ==
  LET c == st.feature IN
  /\ c.showHistory
  /\ i \in DOMAIN c.history
  /\ FeatureStep("FeatureSelect", handleSelectHistory(c, c.history[i]))

\* The clear button of the history panel.
FeatureClear ==
  LET c == st.feature IN
  /\ c.showHistory
  /\ FeatureStep("FeatureClear",
       [handleClearHistory(c) EXCEPT
          !.cleared = @ \cup { c.history[i].timestamp : i \in DOMAIN c.history }])

\* "Retake" in the quiz, a template button in the quick tools.
FeatureReset ==
  LET c == st.feature IN
  /\ c.name = "quiz" => c.result # ""
  /\ c.name = "tools" => ~c.loading
  /\ c.name # "research"
  /\ c.result # ""
  /\ FeatureStep("FeatureReset",
       [c EXCEPT !.result = "",
                 !.input = IF c.name = "quiz" THEN NoInput("quiz") ELSE @])

\* The history lists found in storage when the feature is opened: none, an
\* empty one and one saved item.
SavedItem(f) == [input |-> [i \in DOMAIN NoInput(f) |-> <<"a">>], result |-> "advice", timestamp |-> 0]

SavedHistories(f) == { <<>>, <<stringifyHistory(<<>>)>>, <<stringifyHistory(<<SavedItem(f)>>)>> }

InitHistory ==
  /\ \E f \in Features : \E j \in SavedHistories(f) :
       st = [InitSt EXCEPT !.feature = loadHistory([InitFeature(f) EXCEPT !.storage = j])]
  /\ ev = Ev("init", NoMsg)
  /\ tornDown = "none"
  /\ sched = <<>>
  /\ cut = FALSE
  /\ parts = <<>>
  /\ turn = <<"idle">>

NextHistory ==
  \/ \E i \in 1..MaxAnswers : \E x \in Texts : FeatureType(i, x)
  \/ FeatureSubmit
  \/ FeatureResolve("advice")
  \/ FeatureReject
  \/ FeatureToggle
  \/ \E i \in 1..(MaxRequests + 1) : FeatureSelect(i)
  \/ FeatureClear
  \/ FeatureReset

SpecHistory == InitHistory /\ [][NextHistory]_vars

(* ---------------------------- chatbot: steps -------------------------- *)
BotStep(op, b) ==
  /\ st' = [st EXCEPT !.bot = b]
  /\ ev' = Ev(op, NoMsg)
  /\ UNCHANGED Ghosts

ChatMount ==
  /\ ~st.bot.chat
  /\ BotStep("ChatMount", mountChat(st.bot))

\* The input field, or the result of the speech recogniser.
ChatType(x) ==
  /\ st.bot.input # x
  /\ BotStep("ChatType", [st.bot EXCEPT !.input = x])

ChatSubmit ==
  /\ st.bot.submits < MaxSubmits
  /\ BotStep("ChatSubmit", handleSubmitChat(st.bot))

ChatOpened(i) ==
  /\ i \in DOMAIN st.bot.requests
  /\ st.bot.requests[i].stage = "sending"
  /\ BotStep("ChatOpened", streamOpened(st.bot, i))

ChatChunk(i, text) ==
  /\ i \in DOMAIN st.bot.requests
  /\ st.bot.requests[i].stage = "streaming"
  /\ Len(st.bot.requests[i].modelResponse) < MaxReply
  /\ BotStep("ChatChunk", streamChunk(st.bot, i, text))

ChatEnded(i) ==
  /\ i \in DOMAIN st.bot.requests
  /\ st.bot.requests[i].stage = "streaming"
  /\ BotStep("ChatEnded", streamEnded(st.bot, i))

ChatFailed(i) ==
  /\ i \in DOMAIN st.bot.requests
  /\ BotStep("ChatFailed", streamFailed(st.bot, i))

\* The chats found in storage when the tab is opened: none, or one exchange
\* after the greeting.
SavedChats ==
  { <<>>,
    <<stringifyChat(<<Message("model", Greeting), Message("user", <<"a">>),
                      Message("model", <<"b">>)>>)>> }

InitChat ==
  /\ \E j \in SavedChats : st = [InitSt EXCEPT !.bot.storage = j]
  /\ ev = Ev("init", NoMsg)
  /\ tornDown = "none"
  /\ sched = <<>>
  /\ cut = FALSE
  /\ parts = <<>>
  /\ turn = <<"idle">>

NextChat ==
  \/ ChatMount
  \/ \E x \in Texts : ChatType(x)
  \/ ChatSubmit
  \/ \E i \in 1..MaxSubmits :
       \/ ChatOpened(i)
       \/ ChatChunk(i, <<"b">>)
       \/ ChatEnded(i)
       \/ ChatFailed(i)

SpecChat == InitChat /\ [][NextChat]_vars

TypeOK ==
  /\ st.aiStatus \in {"idle", "connecting", "listening", "thinking", "speaking", "error"}
  /\ st.error \in {"null", "microphone", "connection"}
  /\ st.sourcesRef \subseteq DOMAIN st.bufs
  /\ \A t \in st.timers : t[1] \in DOMAIN st.bufs /\ t[2] \in 0..MaxDur
  /\ Cardinality(st.timers) <= 1
  /\ st.feature.name \in Features
  /\ st.feature.error \in {"", "blank", "failed"}
  /\ Len(st.feature.request) <= 1
  /\ st.feature.made <= st.feature.issued /\ st.feature.issued <= MaxRequests
  /\ \A i \in DOMAIN st.bot.messages : st.bot.messages[i].role \in {"user", "model"}
  /\ st.bot.submits <= MaxSubmits

(* ---------------------------- properties ------------------------------ *)
CleanupOps == {"ClickStop", "GumDeny", "ConnError", "ConnClose", "Unmount"}

IsMessage(e) == e.op = "ConnMessage"

\* C1: when the microphone is denied or a transport error is delivered to a
\* connecting or open session, the status after the handler is 'error' with
\* the error message set, and it stays 'error' until start is pressed again.
C1_FailureLeavesError ==
  [][ /\ ev'.op \in {"GumDeny", "ConnError"} =>
           st'.aiStatus = "error" /\ st'.error # "null"
      /\ (st.aiStatus = "error" /\ ev'.op # "ClickStart") => st'.aiStatus = "error"
    ]_vars

\* C2 as stated: after cleanup has run, from any entry state, the next-start
\* cursor equals 0.
C2_CursorZeroAfterCleanup ==
  ev.op \in CleanupOps => st.nextStartTimeRef = 0

\* C2 as amended: cleanup leaves the next-start cursor at the value it had;
\* the cursor is 0 after the start handler and after a user interruption.
C2_CleanupKeepsCursor ==
  [][ /\ ev'.op \in CleanupOps => st'.nextStartTimeRef = st.nextStartTimeRef
      /\ ev'.op \in {"ClickStart", "ClickInterrupt"} => st'.nextStartTimeRef = 0
    ]_vars

C2_Witness ==
  ev.op \in CleanupOps /\ st.nextStartTimeRef > 0

\* No microphone track is live, no capture node is connected, no audio
\* context is open and no network session is open or being opened.
Released ==
  \A k \in Attempts :
    /\ st.track[k] # "live"
    /\ st.proc[k] # "connected"
    /\ st.inCtx[k] # "running"
    /\ st.outCtx[k] # "running"
    /\ st.conn[k] \notin {"connecting", "open"}

\* C3: once cleanup has been invoked, and as long as start is not pressed
\* again, every resource is eventually released for good, also when cleanup
\* ran while the microphone request or the connection was pending.
C3_TeardownReleasesAll ==
  [](tornDown # "none" => <>[](tornDown # "none" => Released))

\* C4: cleanup is idempotent: from every reachable state a second cleanup
\* right after a first one changes nothing, the platform rejects no call of
\* either, and the status is idle after both.
C4_CleanupIdempotent ==
  LET a == cleanup(st)
      b == cleanup(a)
  IN /\ a.aiStatus = "idle"
     /\ b.aiStatus = "idle"
     /\ b = a
     /\ ~b.fault

\* Two cleanups without a start in between: the one of onerror, then the one
\* of onclose, on a session whose resources had been acquired.
C4_Witness ==
  /\ ev.op = "ConnClose"
  /\ st.error = "connection"
  /\ \E k \in Attempts : st.inCtx[k] = "closed" /\ st.track[k] = "ended"

\* C5: after a stop click or a close event has run cleanup, and until start
\* is pressed again, the status is idle and no playback buffer is scheduled,
\* whatever timer or server message is delivered.
C5_IdleAfterStop ==
  [][ tornDown' \in {"ClickStop", "ConnClose"} =>
        /\ st'.aiStatus = "idle"
        /\ tornDown = tornDown' => Len(st'.bufs) = Len(st.bufs)
    ]_vars

\* C6: a chunk is scheduled no earlier than the output clock's current time
\* and, when it continues a sequence of chunks, no earlier than the start of
\* the previous chunk, and no earlier than its end: chunks do not overlap.
C6_NoOverlap ==
  [][ Len(st'.bufs) > Len(st.bufs) =>
        /\ sched'[1] >= st.outClock[st.outputAudioContextRef]
        /\ (sched # <<>> /\ ~cut) =>
              /\ sched'[1] >= sched[1]
              /\ sched'[1] >= sched[1] + sched[2]
    ]_vars

\* A second chunk queued behind the first: its start is ahead of the clock.
C6_Witness ==
  /\ IsMessage(ev) /\ ev.m.audio > 0 /\ ~ev.m.interrupted
  /\ Len(st.bufs) = 2
  /\ sched[1] > st.outClock[st.outputAudioContextRef]

\* C7: a message with the interrupted flag stops every buffer of the active
\* set, the chunk the same message scheduled included, empties the set and
\* resets the next-start cursor to 0.
C7_InterruptStopsAll ==
  [][ (IsMessage(ev') /\ ev'.m.interrupted) =>
        /\ \A i \in st.sourcesRef : st'.bufs[i].state = "stopped"
        /\ \A i \in DOMAIN st'.bufs \ DOMAIN st.bufs : st'.bufs[i].state = "stopped"
        /\ st'.sourcesRef = {}
        /\ st'.nextStartTimeRef = 0
    ]_vars

\* An interrupted message that carried a chunk, with an earlier chunk active.
C7_Witness ==
  /\ IsMessage(ev) /\ ev.m.interrupted /\ ev.m.audio > 0
  /\ Len(st.bufs) = 2
  /\ st.aiSpeakingTimerRef = 2
  /\ \A i \in DOMAIN st.bufs : st.bufs[i].state = "stopped"

You(text) == [author |-> "You", text |-> text]

AI(text) == [author |-> "AI", text |-> text]

\* The turn-complete signal arrives after the partials "I enjoy" and
\* "I enjoy coding", with no output text.
ExampleTurn ==
  /\ parts = <<IEnjoy, IEnjoyCoding>>
  /\ st.currentOutputTranscriptionRef = <<>>
  /\ ev' = Ev("ConnMessage", TurnCompleteMsg)

\* C8 as stated: after the partials "I enjoy" and "I enjoy coding" and a
\* turn-complete signal, the transcript gains exactly {You, "I enjoy coding"}.
C8_ExampleEntry ==
  [][ ExampleTurn => st'.transcription = Append(st.transcription, You(IEnjoyCoding)) ]_vars

\* C8 as amended: the transcript gains exactly one entry, {You, "I enjoyI
\* enjoy coding"}, the concatenation of the partials, and no AI entry.
C8_ExampleConcatenated ==
  [][ ExampleTurn =>
        st'.transcription = Append(st.transcription, You(IEnjoy \o IEnjoyCoding)) ]_vars

C8_Witness ==
  /\ ev = Ev("ConnMessage", TurnCompleteMsg)
  /\ st.transcription = <<You(IEnjoy \o IEnjoyCoding)>>

\* C9: a turn-complete message appends (You, trimmed pending input) if that
\* is not empty, then (AI, trimmed pending output) if that is not empty,
\* changes no earlier entry and leaves both pending buffers empty.
C9_TurnCompleteFlush ==
  [][ (IsMessage(ev') /\ ev'.m.turnComplete) =>
        LET i == Trim(st.currentInputTranscriptionRef \o ev'.m.inT)
            o == Trim(st.currentOutputTranscriptionRef \o ev'.m.outT)
        IN /\ st'.transcription =
                 st.transcription \o (IF i # <<>> THEN <<You(i)>> ELSE <<>>)
                                  \o (IF o # <<>> THEN <<AI(o)>> ELSE <<>>)
           /\ st'.currentInputTranscriptionRef = <<>>
           /\ st'.currentOutputTranscriptionRef = <<>>
    ]_vars

\* A turn-complete message that recorded both entries.
C9_Witness ==
  /\ ev = Ev("ConnMessage", Msg(<<"a">>, <<"a">>, TRUE, 0, FALSE))
  /\ st.transcription = <<You(<<"a">>), AI(<<"a">>)>>

\* C10: every entry of the transcript has a character that is not a space.
C10_NoBlankEntry ==
  \A n \in DOMAIN st.transcription :
    \E j \in DOMAIN st.transcription[n].text : ~IsSpace(st.transcription[n].text[j])

\* A turn-complete whose pending input was a single space recorded nothing.
C10_Witness ==
  /\ ev = Ev("ConnMessage", Msg(<<" ">>, <<>>, TRUE, 0, FALSE))
  /\ st.transcription = <<>>
  /\ parts = <<>>

\* The statuses of a full turn with an audio reply, in order.
FullTurn == <<"idle", "connecting", "listening", "speaking", "listening">>

\* How far the full turn has come: 1 before start is pressed, 2 while the
\* microphone request or the connection is pending, 3 once the connection
\* is open, 4 once the audio chunk is scheduled, 5 once its timeout has
\* elapsed.
TurnStage ==
  IF st.bufs # <<>> /\ st.timers = {} THEN 5
  ELSE IF st.bufs # <<>> THEN 4
  ELSE IF \E k \in Attempts : st.conn[k] = "open" THEN 3
  ELSE IF \E k \in Attempts : st.gum[k] # "none" THEN 2
  ELSE 1

\* C11: in a full turn with an audio reply (start pressed, microphone
\* granted, connection open, one audio chunk received, its playback timeout
\* elapsed, and nothing else), the status goes through exactly idle,
\* connecting, listening, speaking, listening: at every stage of the turn
\* the statuses so far are the first ones of that sequence, none skipped and
\* none entered twice.
C11_FullTurnStatuses ==
  turn # <<>> => turn = SubSeq(FullTurn, 1, TurnStage)

C11_Witness ==
  /\ turn = FullTurn
  /\ ev.op = "TimerFire"
  /\ st.aiStatus = "listening"

\* The microphone streams that are live and the network connections that
\* are open.
LiveStreams == { k \in Attempts : st.track[k] = "live" }

OpenConnections == { k \in Attempts : st.conn[k] = "open" }

\* C12: at most one streaming session exists at any time: at most one
\* microphone stream is live and at most one network connection is open,
\* whatever the clicks, the tab switches and the order in which the
\* microphone requests and the connections complete.
C12_OneSession ==
  /\ Cardinality(LiveStreams) <= 1
  /\ Cardinality(OpenConnections) <= 1

\* C13: every capture frame delivered while the status is listening
\* produces exactly one outbound realtime-input message tagged
\* audio/pcm;rate=16000: it is sent at once, or it waits for the session
\* promise and is sent when the connection opens; and the messages of a
\* session are sent in capture order.
C13_FrameSentOnce ==
  [][ /\ (ev'.op = "Frame" /\ st.aiStatus = "listening") =>
           \E k \in Attempts :
             LET before == st.sent[k] \o st.queued[k]
                 after == st'.sent[k] \o st'.queued[k]
             IN /\ Len(after) = Len(before) + 1
                /\ SubSeq(after, 1, Len(before)) = before
                /\ after[Len(after)].n = st'.captured
                /\ after[Len(after)].mimeType = "audio/pcm;rate=16000"
                /\ \A j \in Attempts \ {k} :
                     st'.sent[j] = st.sent[j] /\ st'.queued[j] = st.queued[j]
      /\ \A k \in Attempts :
           LET out == st'.sent[k] \o st'.queued[k] IN
           \A i, j \in DOMAIN out : i < j => out[i].n < out[j].n
      /\ \A k \in Attempts :
           (ev'.op = "ConnOpen" /\ st.conn[k] = "connecting" /\ st'.conn[k] # "connecting")
             => st'.sent[k] = st.queued[k]
    ]_vars

\* C14: there is no automatic retry.  A microphone request is made only by
\* a press of start, one per press; a connection is opened only by the
\* continuation of the request of its own start, once it is granted; a
\* connection that has failed or closed is not opened again.  So after a
\* transport error, a close or a denied permission nothing is requested or
\* opened until start is pressed again.
C14_NoAutomaticRetry ==
  [][ /\ \A k \in Attempts :
           (st.gum[k] = "none" /\ st'.gum[k] # "none") =>
             /\ ev'.op = "ClickStart"
             /\ st'.gum[k] = "pending"
             /\ \A j \in Attempts \ {k} : st'.gum[j] = "none" => st.gum[j] = "none"
             /\ \A j \in Attempts \ {k} : st.gum[j] = "none" => st'.gum[j] = "none"
      /\ \A k \in Attempts :
           (st.conn[k] = "none" /\ st'.conn[k] # "none") =>
             /\ ev'.op = "GumGrant"
             /\ st.gum[k] = "pending"
             /\ st'.conn[k] = "connecting"
      /\ \A k \in Attempts :
           st.conn[k] \in {"closing", "failed", "closed"} =>
             st'.conn[k] \notin {"connecting", "open"}
      /\ \A k \in Attempts :
           st.gum[k] \in {"granted", "denied"} => st'.gum[k] = st.gum[k]
    ]_vars

C14_Witness ==
  /\ ev.op \in {"ConnError", "ConnClose", "GumDeny"}
  /\ \E k \in Attempts : st.conn[k] \in {"failed", "closed"} \/ st.gum[k] = "denied"
  /\ \A k \in Attempts : st.gum[k] # "pending" /\ st.conn[k] \notin {"connecting", "open"}
  /\ \E k \in Attempts : st.gum[k] = "none"

\* C15: the status leaves 'speaking' only to 'listening', when the playback
\* timeout elapses or on an interruption (signalled by the server or pressed
\* by the user), or to 'idle' or 'error' through a teardown; no other event,
\* in particular a turn-complete message, moves it out of 'speaking'.
C15_SpeakingLeaves ==
  [][ (st.aiStatus = "speaking" /\ st'.aiStatus # "speaking") =>
        \/ /\ st'.aiStatus = "listening"
           /\ \/ ev'.op \in {"TimerFire", "ClickInterrupt"}
              \/ IsMessage(ev') /\ ev'.m.interrupted
        \/ /\ st'.aiStatus \in {"idle", "error"}
           /\ ev'.op \in CleanupOps
    ]_vars

\* The start attempt made last, 0 before the first one.
Latest(s) ==
  IF \A k \in Attempts : s.gum[k] = "none" THEN 0
  ELSE CHOOSE k \in Attempts :
         s.gum[k] # "none" /\ \A j \in Attempts : j > k => s.gum[j] = "none"

\* C16: the status goes from 'connecting' to 'listening' only when the
\* connection reports open, the capture node is created only in the open
\* handler of its session, and the status is never listening, thinking or
\* speaking before the open event of the current session (the one started
\* last).
C16_ActiveOnlyAfterOpen ==
  [][ /\ (st.aiStatus = "connecting" /\ st'.aiStatus = "listening") =>
           ev'.op = "ConnOpen"
      /\ \A k \in Attempts :
           (st.proc[k] = "none" /\ st'.proc[k] # "none") =>
             ev'.op = "ConnOpen" /\ st.conn[k] = "connecting"
      /\ st'.aiStatus \in {"listening", "thinking", "speaking"} =>
           Latest(st') # 0 /\ st'.proc[Latest(st')] # "none"
    ]_vars

\* C17: the microphone is acquired before any connection is attempted: an
\* attempt has a network session or an audio context only once its
\* microphone request was granted, so a denied (or still pending) request
\* has created neither.
C17_MicBeforeConnection ==
  \A k \in Attempts :
    st.gum[k] # "granted" =>
      /\ st.conn[k] = "none"
      /\ st.inCtx[k] = "none"
      /\ st.outCtx[k] = "none"
      /\ st.track[k] = "none"

C17_Witness ==
  /\ ev.op = "GumDeny"
  /\ \E k \in Attempts : st.gum[k] = "denied" /\ st.conn[k] = "none"
  /\ \E k \in Attempts : st.gum[k] = "granted" /\ st.conn[k] # "none"

\* C18: whenever the transcript of the mounted component is non-empty, the
\* value stored under the storage key is that list, in the same order; the
\* stored value is loaded into the transcript on mount; and a press of
\* start, which empties the transcript, leaves the stored value as it is.
C18_StoredTranscript ==
  [][ /\ (st'.mounted /\ st'.transcription # <<>>) =>
           JSONparse(st'.storage) = st'.transcription
      /\ (ev'.op = "Remount" /\ st.storage # <<>>) =>
           st'.transcription = JSONparse(st.storage) /\ st'.storage = st.storage
      /\ ev'.op = "ClickStart" =>
           st'.transcription = <<>> /\ st'.storage = st.storage
    ]_vars

C18_Witness ==
  /\ ev.op = "ClickStart"
  /\ st.transcription = <<>>
  /\ Len(st.storage) = 2
  /\ Instance(st) = 2

Sign(n) == IF n > 0 THEN 1 ELSE IF n < 0 THEN 0 - 1 ELSE 0

\* C19: the capture conversion maps every sample of [-1, 1] to the 16-bit
\* signed integer trunc(sample * 32768), with the sign of the sample and
\* inside [-32768, 32767]; in particular the sample 1.0 does not wrap to a
\* negative value.
C19_ConversionInRange ==
  \A k \in Attempts :
    \A i \in DOMAIN st.sent[k] :
      LET b == st.sent[k][i] IN
      /\ b.data = Trunc(b.x * FullScale, SampleSteps)
      /\ Sign(b.data) = Sign(b.x)
      /\ b.data >= 0 - FullScale
      /\ b.data <= FullScale - 1

\* What handleInterruptSpeech may change.
InterruptFrame ==
  { "bufs", "sourcesRef", "nextStartTimeRef", "timers", "aiSpeakingTimerRef", "aiStatus" }

\* C20: the user's interruption stops every buffer of the active set,
\* empties the set, resets the next-start cursor to 0, cancels the
\* playback-end timeout and sets the status to listening; it changes
\* nothing else: the session stays open, the microphone stream and the
\* capture node stay connected, the transcript and the pending text buffers
\* are as before, and the buffers outside the active set are untouched.
C20_InterruptFrame ==
  [][ ev'.op = "ClickInterrupt" =>
        /\ DOMAIN st'.bufs = DOMAIN st.bufs
        /\ \A i \in DOMAIN st.bufs :
             IF i \in st.sourcesRef
             THEN st'.bufs[i].state = "stopped"
             ELSE st'.bufs[i] = st.bufs[i]
        /\ st'.sourcesRef = {}
        /\ st'.nextStartTimeRef = 0
        /\ st'.timers = {}
        /\ st'.aiSpeakingTimerRef = 0
        /\ st'.aiStatus = "listening"
        /\ \A f \in (DOMAIN st) \ InterruptFrame : st'[f] = st[f]
    ]_vars

C20_Witness ==
  /\ ev.op = "ClickInterrupt"
  /\ \E i \in DOMAIN st.bufs : st.bufs[i].state = "stopped"
  /\ \E k \in Attempts :
       /\ st.conn[k] = "open"
       /\ st.track[k] = "live"
       /\ st.proc[k] = "connected"
       /\ st.sessionPromiseRef = k

\* The buffers that were started and have neither ended nor been stopped.
Playing(s) == { i \in DOMAIN s.bufs : s.bufs[i].state = "playing" }

\* C21: the active set holds exactly the buffers that were started and have
\* neither fired their end event nor been stopped by an interruption, a
\* user cancel or a teardown; every audio chunk received with an output
\* context is added once, and the next-start cursor is then the start of
\* the chunk plus its duration.
C21_ActiveSet ==
  [][ /\ st'.sourcesRef = Playing(st')
      /\ (IsMessage(ev') /\ ev'.m.audio > 0 /\ st.outputAudioContextRef # 0) =>
           LET id == Len(st.bufs) + 1
               start == Max(st.nextStartTimeRef, st.outClock[st.outputAudioContextRef])
           IN /\ Len(st'.bufs) = id
              /\ ~ev'.m.interrupted =>
                   /\ st'.sourcesRef = st.sourcesRef \cup {id}
                   /\ st'.bufs[id].start = start
                   /\ st'.bufs[id].dur = ev'.m.audio
                   /\ st'.nextStartTimeRef = start + ev'.m.audio
      /\ ~(IsMessage(ev') /\ ev'.m.audio > 0) => Len(st'.bufs) = Len(st.bufs)
    ]_vars

C21_Witness ==
  /\ ev.op = "SourceEnded"
  /\ \E i \in DOMAIN st.bufs : st.bufs[i].state = "ended"
  /\ st.sourcesRef # {}

\* Buffer i is scheduled on a running context and has not played to its
\* end time yet.
Unfinished(s, i) ==
  /\ s.bufs[i].state = "playing"
  /\ s.outCtx[s.bufs[i].ctx] = "running"
  /\ s.outClock[s.bufs[i].ctx] < s.bufs[i].start + s.bufs[i].dur

\* C22: the playback-end timeout never moves the status from 'speaking' to
\* 'listening' before the end time (start + duration) of the last scheduled
\* buffer: when it fires, no buffer of the active set is still to be
\* played, also when several chunks are queued back-to-back.
C22_TimerAfterLastBuffer ==
  [][ (ev'.op = "TimerFire" /\ st.aiStatus = "speaking" /\ st'.aiStatus = "listening") =>
        \A i \in st.sourcesRef : ~Unfinished(st, i)
    ]_vars

\* C23: partial transcript text never crosses a session boundary: when a
\* session is started, both pending transcript buffers are empty, also
\* when the session before was stopped, closed or failed between a partial
\* transcription and its turn-complete signal.
C23_BuffersEmptyAtStart ==
  [][ ev'.op = "ClickStart" =>
        /\ st'.currentInputTranscriptionRef = <<>>
        /\ st'.currentOutputTranscriptionRef = <<>>
    ]_vars

(* ---------------------------- history-backed features: properties ----- *)
\* The timestamps of the items of the in-memory list and of the stored list.
Listed(c) ==
  { c.history[i].timestamp : i \in DOMAIN c.history }
    \cup (IF c.storage = <<>> THEN {}
          ELSE { c.storage[1][i][3] : i \in DOMAIN c.storage[1] })

\* C24: after every successful request the history list is the new item
\* followed by the items the list held before, in their order, and after
\* every saveHistory call (a successful request, a clear) the stored value
\* is the stringified in-memory list.
C24_NewItemFirst ==
  [][ LET c == st.feature
          d == st'.feature
      IN /\ ev'.op = "FeatureResolve" =>
              /\ d.history # <<>>
              /\ Head(d.history).timestamp = d.made
              /\ Head(d.history).result = d.result
              /\ Tail(d.history) = c.history
         /\ ev'.op \in {"FeatureResolve", "FeatureClear"} =>
              d.storage = <<stringifyHistory(d.history)>> ]_vars

\* C25: an item that the user has cleared is never again in the in-memory
\* history list nor in the stored list.
C25_ClearedStayCleared == Listed(st.feature) \cap st.feature.cleared = {}

\* C26: a submit with blank input sets the error and leaves the request,
\* loading, result, history and the stored list as they were; loading is
\* true exactly while a request is in flight, and false after the request
\* has succeeded or failed; a failed request leaves the history list and
\* the stored list as they were.
C26_SubmitOutcomes ==
  [][ LET c == st.feature
          d == st'.feature
      IN /\ d.loading <=> d.request # <<>>
         /\ (ev'.op = "FeatureSubmit" /\ isBlank(c)) =>
              /\ d.error # ""
              /\ d.request = c.request /\ d.issued = c.issued
              /\ d.loading = c.loading /\ d.result = c.result
              /\ d.history = c.history /\ d.storage = c.storage
         /\ (ev'.op = "FeatureSubmit" /\ ~isBlank(c)) =>
              d.loading /\ d.issued = c.issued + 1
         /\ ev'.op \in {"FeatureResolve", "FeatureReject"} => c.loading /\ ~d.loading
         /\ ev'.op = "FeatureReject" =>
              /\ d.error # ""
              /\ d.history = c.history /\ d.storage = c.storage ]_vars

\* A request has failed in a feature that holds a history item.
C26_Witness ==
  /\ ev.op = "FeatureReject"
  /\ st.feature.error = "failed" /\ ~st.feature.loading
  /\ st.feature.history # <<>>

(* ---------------------------- chatbot: properties --------------------- *)
\* C27: at most one message request is in flight; a submit while loading,
\* with blank input or without a chat session changes nothing; when a
\* request completes, the message list is the list before the submit
\* followed by one user message with the submitted text and one model
\* message: the streamed reply if the stream ended, the apology if the
\* request or the stream failed.
C27_OneReplyPerSubmit ==
  [][ LET b == st.bot
          d == st'.bot
      IN /\ Len(d.requests) <= 1
         /\ (ev'.op = "ChatSubmit" /\ (Trim(b.input) = <<>> \/ ~b.chat \/ b.loading)) =>
              d = b
         /\ (ev'.op = "ChatSubmit" /\ ~(Trim(b.input) = <<>> \/ ~b.chat \/ b.loading)) =>
              /\ Len(d.requests) = Len(b.requests) + 1
              /\ d.messages = Append(b.messages, Message("user", b.input))
         /\ ev'.op = "ChatEnded" =>
              \E i \in DOMAIN b.requests :
                d.messages = b.requests[i].before
                               \o << Message("user", b.requests[i].message),
                                     Message("model", b.requests[i].modelResponse) >>
         /\ ev'.op = "ChatFailed" =>
              \E i \in DOMAIN b.requests :
                d.messages = b.requests[i].before
                               \o << Message("user", b.requests[i].message),
                                     Message("model", Apology) >> ]_vars

====
